---- MODULE Spec2Model ----
(***************************************************************************)
(* The two MkDocs hooks of developers.esphome.io:                          *)
(*   hooks/comments-toc.py  on_page_content(html, page, config, files)     *)
(*   hooks/copyright.py     on_config(config, **kwargs)                    *)
(* Python objects are modelled as a heap of records: `config` is the site  *)
(* configuration, `pages` maps each page to its toc and meta.  A hook is   *)
(* an operator from the objects it can reach to those objects after the    *)
(* call, together with how the call ended (returned or raised).            *)
(***************************************************************************)
EXTENDS Integers, Sequences, FiniteSets, TLC

VARIABLES
    config,     \* the site configuration object
    pages,      \* page id -> [toc, meta]
    year,       \* the host clock's calendar year (datetime.now().year)
    config0,    \* history: config at the start
    pages0,     \* history: pages at the start (in a build: as the markdown produces them)
    year0,      \* history: the clock's year at the start
    ticks,      \* history: how many times the year advanced
    calls,      \* history: page id -> number of on_page_content calls on it
    stamps,     \* history: one [year, text] per on_config call, in order
    last,       \* history: the last step [op, page, result]
    pre,        \* history: [config, pages, year] just before the last step
    phase,      \* build orchestrator: "free" | "config" | "pages" | "aborted"
    stage,      \* build orchestrator: page id -> "pending" | "toc_ready" | "hooked" | "rendered"
    rendered    \* build orchestrator: page id -> what the page's render step read

vars == <<config, pages, year, config0, pages0, year0, ticks, calls, stamps,
          last, pre, phase, stage, rendered>>

-----------------------------------------------------------------------------
(* Bounds of the exploration *)

MaxPageCalls == 2
MaxConfigCalls == 2
MaxTicks == 1

StartYears == {2024, 2099}

PageIds == {"index.md", "guide.md"}

-----------------------------------------------------------------------------
(* Python values found in a page's front matter, and their truth value *)

PyVal(t, n) == [t |-> t, n |-> n]

Missing  == PyVal("missing", 0)   \* the key is not in the mapping
PyNone   == PyVal("none", 0)
PyFalse  == PyVal("bool", 0)
PyTrue   == PyVal("bool", 1)
PyInt(n) == PyVal("int", n)
PyStr(n) == PyVal("str", n)       \* a string of n characters
PyList(n) == PyVal("list", n)     \* a list of n elements

\* faulty variant: any value other than None counts (an `is not None` test)
TruthyNotNone(v) == v.t # "none"

\* bool(v), as the `not` of line 6 evaluates it
Truthy(v) ==
    CASE v.t = "bool" -> v.n = 1
      [] v.t = "none" -> FALSE
      [] v.t = "int"  -> v.n # 0
      [] v.t = "str"  -> v.n > 0
      [] v.t = "list" -> v.n > 0

MetaKeys == {"comments", "title"}

\* page.meta: a dict, or (malformed) an object without .get
MetaDict(f) == [mapping |-> TRUE, map |-> f]
MetaMalformed == [mapping |-> FALSE, map |-> [k \in MetaKeys |-> Missing]]

\* dict.get(key): the value, or None when the key is missing
MetaGet(meta, key) ==
    IF meta.map[key] = Missing THEN PyNone ELSE meta.map[key]

-----------------------------------------------------------------------------
(* Table of contents *)

\* AnchorLink(title, id, level): a new entry has no children
AnchorLink(title, id, level) ==
    [title |-> title, id |-> id, level |-> level, children |-> <<>>]

WithChildren(entry, kids) == [entry EXCEPT !.children = kids]

\* page.toc: a TableOfContents over `items`, or absent (None / the empty list)
Toc(items) == [present |-> TRUE, items |-> items]
NoToc == [present |-> FALSE, items |-> <<>>]

\* bool(page.toc): TableOfContents has __len__ == len(items)
TocTruthy(toc) == toc.present /\ Len(toc.items) > 0

\* bool(page.toc.items)
ItemsTruthy(toc) == Len(toc.items) > 0

-----------------------------------------------------------------------------
(* Strings.  A str is a sequence of chunks (literal pieces and single      *)
(* digits); config.copyright is a str or None.                             *)

StrVal(chunks) == [none |-> FALSE, text |-> chunks]
NoneVal == [none |-> TRUE, text |-> <<>>]

DigitChar(d) == <<"0", "1", "2", "3", "4", "5", "6", "7", "8", "9">>[d + 1]

\* str(n) for n >= 0, as the f-string's {...} formats an int
RECURSIVE FormatInt(_)
FormatInt(n) ==
    IF n < 10 THEN <<DigitChar(n)>>
    ELSE FormatInt(n \div 10) \o <<DigitChar(n % 10)>>

CopyrightPrefix == "Copyright © "
CopyrightSuffix == " ESPHome - A project from the <a target=\"_blank\" href=\"https://www.openhomefoundation.org/\">Open Home Foundation</a>"

\* datetime.now().year
Now == year

-----------------------------------------------------------------------------
(* hooks/copyright.py *)

Stamp(y) == StrVal(<<CopyrightPrefix>> \o FormatInt(y) \o <<CopyrightSuffix>>)

\* faulty variant: the year is fixed when the module is loaded
on_config_cached(cfg) == [cfg EXCEPT !.copyright = Stamp(year0)]

\* faulty variant: a copyright that is already set is kept
on_config_keep(cfg) ==
    IF cfg.copyright.none THEN [cfg EXCEPT !.copyright = Stamp(Now)] ELSE cfg

\* faulty variant: the notice is added to what is already there
on_config_extend(cfg) ==
    [cfg EXCEPT !.copyright =
        StrVal(@.text \o <<CopyrightPrefix>> \o FormatInt(Now) \o <<CopyrightSuffix>>)]

\* on_config(config, **kwargs): the config object after the call
on_config(cfg) ==
    [cfg EXCEPT !.copyright =
        StrVal(<<CopyrightPrefix>> \o FormatInt(Now) \o <<CopyrightSuffix>>)]

-----------------------------------------------------------------------------
(* hooks/comments-toc.py *)

Returned(cfg, files) == [result |-> "returned", config |-> cfg, files |-> files]
Raised(cfg, files)   == [result |-> "raised", config |-> cfg, files |-> files]

AppendComments(files, page, i) ==
    [files EXCEPT ![page].toc.items[i].children =
        Append(@, AnchorLink("Comments", "comments", 2))]

\* faulty variant: the entry goes under the last top-level entry
on_page_content_last(html, page, cfg, files) ==
    LET pg == files[page] IN
    IF ~TocTruthy(pg.toc) \/ ~ItemsTruthy(pg.toc) THEN Returned(cfg, files)
    ELSE IF ~pg.meta.mapping THEN Raised(cfg, files)
    ELSE IF ~Truthy(MetaGet(pg.meta, "comments")) THEN Returned(cfg, files)
    ELSE Returned(cfg, AppendComments(files, page, Len(pg.toc.items)))

\* faulty variant: a page without top-level entries gets the entry as its toc
on_page_content_fills_empty(html, page, cfg, files) ==
    LET pg == files[page] IN
    IF ~pg.meta.mapping THEN Raised(cfg, files)
    ELSE IF ~Truthy(MetaGet(pg.meta, "comments")) THEN Returned(cfg, files)
    ELSE IF ~TocTruthy(pg.toc) \/ ~ItemsTruthy(pg.toc)
         THEN Returned(cfg, [files EXCEPT ![page].toc =
                                Toc(<<AnchorLink("Comments", "comments", 2)>>)])
    ELSE Returned(cfg, AppendComments(files, page, 1))

\* faulty variant: an entry with id "comments" is not added a second time
on_page_content_once(html, page, cfg, files) ==
    LET pg == files[page] IN
    IF ~TocTruthy(pg.toc) \/ ~ItemsTruthy(pg.toc) THEN Returned(cfg, files)
    ELSE IF ~pg.meta.mapping THEN Raised(cfg, files)
    ELSE IF ~Truthy(MetaGet(pg.meta, "comments")) THEN Returned(cfg, files)
    ELSE IF \E i \in 1..Len(pg.toc.items[1].children) :
                pg.toc.items[1].children[i].id = "comments"
         THEN Returned(cfg, files)
    ELSE Returned(cfg, AppendComments(files, page, 1))

\* faulty variant: metadata that is not a mapping counts as "no comments"
on_page_content_lenient(html, page, cfg, files) ==
    LET pg == files[page] IN
    IF ~TocTruthy(pg.toc) \/ ~ItemsTruthy(pg.toc) THEN Returned(cfg, files)
    ELSE IF ~pg.meta.mapping THEN Returned(cfg, files)
    ELSE IF ~Truthy(MetaGet(pg.meta, "comments")) THEN Returned(cfg, files)
    ELSE Returned(cfg, AppendComments(files, page, 1))

\* faulty variant: the entry is added to every page reachable through files
on_page_content_all_files(html, page, cfg, files) ==
    LET pg == files[page] IN
    IF ~TocTruthy(pg.toc) \/ ~ItemsTruthy(pg.toc) THEN Returned(cfg, files)
    ELSE IF ~pg.meta.mapping THEN Raised(cfg, files)
    ELSE IF ~Truthy(MetaGet(pg.meta, "comments")) THEN Returned(cfg, files)
    ELSE Returned(cfg,
            [q \in DOMAIN files |->
                IF TocTruthy(files[q].toc)
                THEN AppendComments(files, q, 1)[q]
                ELSE files[q]])

\* on_page_content(html, page, config, files): how the call ends, and the
\* config and the pages (reachable through `files`) after it.  `page` is the
\* id of the page object the hook is given.
on_page_content(html, page, cfg, files) ==
    LET pg == files[page] IN
    IF ~TocTruthy(pg.toc) THEN Returned(cfg, files)
    ELSE IF ~ItemsTruthy(pg.toc) THEN Returned(cfg, files)
    ELSE IF ~pg.meta.mapping THEN Raised(cfg, files)
    ELSE IF ~Truthy(MetaGet(pg.meta, "comments")) THEN Returned(cfg, files)
    ELSE Returned(cfg,
            [files EXCEPT ![page].toc.items[1].children =
                Append(@, AnchorLink("Comments", "comments", 2))])

-----------------------------------------------------------------------------
(* Inputs: the pages and the configuration the hooks are called on *)

Intro    == AnchorLink("Getting Started", "getting-started", 1)
Usage    == AnchorLink("Usage", "usage", 1)
Setup    == AnchorLink("Setup", "setup", 2)
Linux    == AnchorLink("Linux", "linux", 3)
Feedback == AnchorLink("Comments", "comments", 2)   \* a heading the author wrote

TocInputs ==
    { NoToc,
      Toc(<<>>),
      Toc(<<Intro>>),
      Toc(<<WithChildren(Intro, <<Setup>>)>>),
      Toc(<<Intro, WithChildren(Usage, <<Setup>>)>>),
      Toc(<<WithChildren(Intro, <<WithChildren(Setup, <<Linux>>), Feedback>>),
            WithChildren(Usage, <<Setup>>)>>) }

CommentsInputs ==
    { Missing, PyNone, PyFalse, PyInt(0), PyStr(0), PyList(0),
      PyTrue, PyInt(1), PyStr(4), PyList(1) }

MetaInputs ==
    {MetaMalformed}
    \cup {MetaDict([comments |-> c, title |-> Missing]) : c \in CommentsInputs}
    \cup {MetaDict([comments |-> c, title |-> PyStr(5)]) : c \in {Missing, PyFalse, PyTrue}}

PageInputs == [toc : TocInputs, meta : MetaInputs]

\* what the other pages of the site are while one page takes every input
OtherPageInputs ==
    { [toc |-> Toc(<<WithChildren(Intro, <<Setup>>), Usage>>),
       meta |-> MetaDict([comments |-> PyTrue, title |-> PyStr(5)])] }

SiteInputs ==
    { f \in [PageIds -> PageInputs \cup OtherPageInputs] :
        \E p \in PageIds : \A q \in PageIds \ {p} : f[q] \in OtherPageInputs }

CopyrightInputs == { NoneVal, StrVal(<<>>), StrVal(<<"(c) 2019 The Authors">>) }

ConfigInputs == [site_name : {"ESPHome Developer Documentation"}, copyright : CopyrightInputs]

Snapshot == [config |-> config, pages |-> pages, year |-> year]
NoStep == [op |-> "none", page |-> "none", result |-> "none"]
NotRendered == [done |-> FALSE, copyright |-> NoneVal, toc |-> NoToc]

-----------------------------------------------------------------------------
(* The hooks called in any order, any number of times *)

Init ==
    /\ config \in ConfigInputs
    /\ pages \in SiteInputs
    /\ year \in StartYears
    /\ config0 = config
    /\ pages0 = pages
    /\ year0 = year
    /\ ticks = 0
    /\ calls = [p \in PageIds |-> 0]
    /\ stamps = <<>>
    /\ last = NoStep
    /\ pre = Snapshot
    /\ phase = "free"
    /\ stage = [p \in PageIds |-> "pending"]
    /\ rendered = [p \in PageIds |-> NotRendered]

\* the host clock passes into the next calendar year
Tick ==
    /\ ticks < MaxTicks
    /\ year' = year + 1
    /\ ticks' = ticks + 1
    /\ last' = [op |-> "tick", page |-> "none", result |-> "none"]
    /\ pre' = Snapshot
    /\ UNCHANGED <<config, pages, config0, pages0, year0, calls, stamps,
                   phase, stage, rendered>>

\* one call of on_config(config)
CallOnConfig ==
    /\ Len(stamps) < MaxConfigCalls
    /\ config' = on_config(config)
    /\ stamps' = Append(stamps, [year |-> year, text |-> config'.copyright])
    /\ last' = [op |-> "on_config", page |-> "none", result |-> "returned"]
    /\ pre' = Snapshot
    /\ UNCHANGED <<pages, year, config0, pages0, year0, ticks, calls>>

\* one call of on_page_content(html, page, config, files) for page p
CallOnPageContent(p) ==
    /\ calls[p] < MaxPageCalls
    /\ LET r == on_page_content("<html>", p, config, pages) IN
        /\ config' = r.config
        /\ pages' = r.files
        /\ last' = [op |-> "on_page_content", page |-> p, result |-> r.result]
    /\ calls' = [calls EXCEPT ![p] = @ + 1]
    /\ pre' = Snapshot
    /\ UNCHANGED <<year, config0, pages0, year0, ticks, stamps>>

OnConfig ==
    /\ phase = "free"
    /\ CallOnConfig
    /\ UNCHANGED <<phase, stage, rendered>>

OnPageContent(p) ==
    /\ phase = "free"
    /\ CallOnPageContent(p)
    /\ UNCHANGED <<phase, stage, rendered>>

Next ==
    \/ OnConfig
    \/ \E p \in PageIds : OnPageContent(p)
    \/ Tick

Spec == Init /\ [][Next]_vars

-----------------------------------------------------------------------------
(* One build, as the orchestrator runs it: on_config once while the        *)
(* configuration is resolved; then, page by page, the page's toc is        *)
(* produced, on_page_content is called once on it, and the page is         *)
(* rendered.  A page that has no table of contents may be rendered without *)
(* the call.  A hook that raises aborts the build.                         *)

BuildInit ==
    /\ config \in ConfigInputs
    /\ pages0 \in SiteInputs
    /\ pages = [p \in PageIds |-> [pages0[p] EXCEPT !.toc = NoToc]]
    /\ year \in StartYears
    /\ config0 = config
    /\ year0 = year
    /\ ticks = 0
    /\ calls = [p \in PageIds |-> 0]
    /\ stamps = <<>>
    /\ last = NoStep
    /\ pre = Snapshot
    /\ phase = "config"
    /\ stage = [p \in PageIds |-> "pending"]
    /\ rendered = [p \in PageIds |-> NotRendered]

BuildConfig ==
    /\ phase = "config"
    /\ CallOnConfig
    /\ phase' = "pages"
    /\ UNCHANGED <<stage, rendered>>

ProduceToc(p) ==
    /\ phase = "pages"
    /\ stage[p] = "pending"
    /\ pages' = [pages EXCEPT ![p].toc = pages0[p].toc]
    /\ stage' = [stage EXCEPT ![p] = "toc_ready"]
    /\ last' = [op |-> "toc", page |-> p, result |-> "none"]
    /\ pre' = Snapshot
    /\ UNCHANGED <<config, year, config0, pages0, year0, ticks, calls, stamps,
                   phase, rendered>>

BuildPageContent(p) ==
    /\ phase = "pages"
    /\ stage[p] = "toc_ready"
    /\ CallOnPageContent(p)
    /\ phase' = IF last'.result = "raised" THEN "aborted" ELSE phase
    /\ stage' = [stage EXCEPT ![p] = "hooked"]
    /\ UNCHANGED rendered

Render(p) ==
    /\ phase = "pages"
    /\ \/ stage[p] = "hooked"
       \/ stage[p] = "toc_ready" /\ ~pages[p].toc.present
    /\ rendered' = [rendered EXCEPT ![p] =
            [done |-> TRUE, copyright |-> config.copyright, toc |-> pages[p].toc]]
    /\ stage' = [stage EXCEPT ![p] = "rendered"]
    /\ last' = [op |-> "render", page |-> p, result |-> "none"]
    /\ pre' = Snapshot
    /\ UNCHANGED <<config, pages, year, config0, pages0, year0, ticks, calls,
                   stamps, phase>>

BuildTick ==
    /\ phase # "aborted"
    /\ Tick

BuildNext ==
    \/ BuildConfig
    \/ \E p \in PageIds : ProduceToc(p)
    \/ \E p \in PageIds : BuildPageContent(p)
    \/ \E p \in PageIds : Render(p)
    \/ BuildTick

BuildSpec == BuildInit /\ [][BuildNext]_vars

-----------------------------------------------------------------------------
(* Vocabulary of the properties, stated without the hooks' operators *)

CommentsEntry == [title |-> "Comments", id |-> "comments", level |-> 2, children |-> <<>>]

\* False, None, 0, the empty string, the empty collection
FalsyValues ==
    { [t |-> "bool", n |-> 0], [t |-> "none", n |-> 0], [t |-> "int", n |-> 0],
      [t |-> "str", n |-> 0], [t |-> "list", n |-> 0] }

HasTruthyComments(meta) ==
    /\ meta.mapping
    /\ meta.map.comments # Missing
    /\ meta.map.comments \notin FalsyValues

HasEntries(toc) == toc.present /\ Len(toc.items) >= 1

Qualifies(pg) == HasEntries(pg.toc) /\ HasTruthyComments(pg.meta)

PageCalled == last.op = "on_page_content"
Before == pre.pages[last.page]
After == pages[last.page]

NComments(n) == [i \in 1..n |-> CommentsEntry]

\* toc with kids put after the children of its first top-level entry
WithAppended(toc, kids) == [toc EXCEPT !.items[1].children = @ \o kids]

DigitValue(c) ==
    CASE c = "0" -> 0 [] c = "1" -> 1 [] c = "2" -> 2 [] c = "3" -> 3 [] c = "4" -> 4
      [] c = "5" -> 5 [] c = "6" -> 6 [] c = "7" -> 7 [] c = "8" -> 8 [] c = "9" -> 9

IsDigit(c) == c \in {"0", "1", "2", "3", "4", "5", "6", "7", "8", "9"}

RECURSIVE DecimalValue(_)
DecimalValue(ds) ==
    IF Len(ds) = 0 THEN 0
    ELSE 10 * DecimalValue(SubSeq(ds, 1, Len(ds) - 1)) + DigitValue(ds[Len(ds)])

\* v is the copyright template with the decimal numeral of y in the year's place
IsStampFor(v, y) ==
    /\ ~v.none
    /\ Len(v.text) >= 3
    /\ v.text[1] = "Copyright © "
    /\ v.text[Len(v.text)] = " ESPHome - A project from the <a target=\"_blank\" href=\"https://www.openhomefoundation.org/\">Open Home Foundation</a>"
    /\ LET ds == SubSeq(v.text, 2, Len(v.text) - 1) IN
        /\ \A i \in 1..Len(ds) : IsDigit(ds[i])
        /\ ds[1] # "0"
        /\ DecimalValue(ds) = y

SameYearStamps == \A i \in 1..Len(stamps) : stamps[i].year = stamps[1].year

-----------------------------------------------------------------------------
(* Properties of on_page_content *)

\* C1: a call on a page with a truthy "comments" value and at least one
\* top-level toc entry returns having put exactly one entry (title
\* "Comments", id "comments", level 2, no children) after the children of the
\* FIRST top-level entry; those children stay as a prefix, the top-level
\* entries keep their number and order, every other entry and the page's
\* metadata are as before.
C1_AppendsOneEntryToFirst ==
    (PageCalled /\ Qualifies(Before)) =>
        LET old == Before.toc.items
            new == After.toc.items
        IN  /\ last.result = "returned"
            /\ After.toc.present
            /\ Len(new) = Len(old)
            /\ Len(new[1].children) = Len(old[1].children) + 1
            /\ new[1].children[Len(new[1].children)] = CommentsEntry
            /\ SubSeq(new[1].children, 1, Len(old[1].children)) = old[1].children
            /\ new[1].title = old[1].title
            /\ new[1].id = old[1].id
            /\ new[1].level = old[1].level
            /\ \A i \in 2..Len(old) : new[i] = old[i]
            /\ After.meta = Before.meta

C1_Witness ==
    /\ PageCalled
    /\ Qualifies(Before)
    /\ Len(Before.toc.items) = 2
    /\ Len(Before.toc.items[1].children) = 2
    /\ Len(After.toc.items[1].children) = 3

\* C2: a call on a page whose toc is absent or has no top-level entry returns
\* and leaves the page's toc and metadata as they were, whatever the value
\* under "comments".
C2_NoTocNoChange ==
    (PageCalled /\ ~HasEntries(Before.toc)) =>
        /\ last.result = "returned"
        /\ After.toc = Before.toc
        /\ After.meta = Before.meta

C2_Witness ==
    /\ PageCalled
    /\ Before.toc = Toc(<<>>)
    /\ HasTruthyComments(Before.meta)
    /\ After = Before

\* C3: a call on a page with top-level toc entries whose metadata has no
\* "comments" key, or a falsy value under it, leaves the whole toc unchanged;
\* the toc changes exactly when the value under "comments" is truthy,
\* whatever the other keys hold.
C3_FalsyCommentsNoChange ==
    (PageCalled /\ HasEntries(Before.toc) /\ Before.meta.mapping) =>
        /\ last.result = "returned"
        /\ ~HasTruthyComments(Before.meta) => After.toc = Before.toc
        /\ (After.toc # Before.toc) <=> HasTruthyComments(Before.meta)

C3_Witness ==
    /\ PageCalled
    /\ HasEntries(Before.toc)
    /\ Before.meta.mapping
    /\ Before.meta.map.comments = PyFalse
    /\ Before.meta.map.title = PyStr(5)
    /\ After.toc = Before.toc

\* C4: the hook is not idempotent: after n calls on a qualifying page the
\* children of its first top-level entry are the original children followed
\* by exactly n Comments entries.
C4_NCallsAppendNEntries ==
    \A p \in PageIds :
        Qualifies(pages0[p]) =>
            pages[p].toc = WithAppended(pages0[p].toc, NComments(calls[p]))

C4_Witness ==
    \E p \in PageIds :
        /\ Qualifies(pages0[p])
        /\ calls[p] = 2
        /\ pages[p].toc.items[1].children =
              pages0[p].toc.items[1].children \o <<CommentsEntry, CommentsEntry>>

\* C8 as stated: with metadata that is not a mapping the call raises and
\* leaves the toc unchanged, for every toc, an absent or empty one included.
C8_RaisesForEveryToc ==
    (PageCalled /\ ~Before.meta.mapping) =>
        /\ last.result = "raised"
        /\ After.toc = Before.toc

\* C8 (amended): with metadata that is not a mapping the toc is left
\* unchanged, and the call raises exactly when the toc has a top-level entry;
\* with an absent or empty toc it returns without looking at the metadata.
C8_RaisesWhenTocHasEntries ==
    (PageCalled /\ ~Before.meta.mapping) =>
        /\ After.toc = Before.toc
        /\ (last.result = "raised") <=> HasEntries(Before.toc)
        /\ (last.result = "returned") <=> ~HasEntries(Before.toc)

C8_Witness ==
    /\ PageCalled
    /\ ~Before.meta.mapping
    /\ HasEntries(Before.toc)
    /\ last.result = "raised"
    /\ After = Before

-----------------------------------------------------------------------------
(* Properties of on_config *)

\* C5: a call of on_config returns with config.copyright set to the fixed
\* template with the clock's year at the call in the year's place, whatever
\* the value before (None, empty, any string); in 2024 it is the template
\* with "2024".
C5_OverwritesWithTemplate ==
    (last.op = "on_config") =>
        /\ IsStampFor(config.copyright, pre.year)
        /\ (pre.year = 2024) =>
              config.copyright.text =
                 << "Copyright © ", "2", "0", "2", "4",
                    " ESPHome - A project from the <a target=\"_blank\" href=\"https://www.openhomefoundation.org/\">Open Home Foundation</a>" >>

C5_Witness ==
    /\ last.op = "on_config"
    /\ pre.year = 2024
    /\ pre.config.copyright = StrVal(<<"(c) 2019 The Authors">>)
    /\ IsStampFor(config.copyright, 2024)

\* C6: while the clock's year does not change, a second or later call of
\* on_config leaves config.copyright equal to the value the first call set.
C6_IdempotentWithinYear ==
    (Len(stamps) >= 2 /\ SameYearStamps) =>
        /\ \A i \in 1..Len(stamps) : stamps[i].text = stamps[1].text
        /\ config.copyright = stamps[1].text

C6_Witness ==
    /\ last.op = "on_config"
    /\ Len(stamps) = 2
    /\ SameYearStamps
    /\ config0.copyright = StrVal(<<"(c) 2019 The Authors">>)
    /\ config.copyright = stamps[1].text

\* C7: the year is read from the clock at each call: every call's string
\* carries the year of its own call, and two calls give equal strings
\* exactly when the clock's year is the same at both.
C7_YearReadAtEachCall ==
    \A i, j \in 1..Len(stamps) :
        /\ IsStampFor(stamps[i].text, stamps[i].year)
        /\ (stamps[i].text = stamps[j].text) <=> (stamps[i].year = stamps[j].year)

C7_Witness ==
    /\ Len(stamps) = 2
    /\ stamps[1].year = 2099
    /\ stamps[2].year = 2100
    /\ stamps[1].text # stamps[2].text
    /\ config.copyright = stamps[2].text

-----------------------------------------------------------------------------
(* Properties of the two hooks together *)

\* C9: on_config changes only config.copyright; on_page_content changes only
\* the page it is given and leaves config and every other page as they were;
\* within one year the config and every page's toc are determined by the
\* initial objects and by how many times each hook was called on them, so
\* every ordering of the same calls ends in the same config and pages.
C9_HooksIndependent ==
    /\ (last.op = "on_config") =>
          /\ pages = pre.pages
          /\ config.site_name = pre.config.site_name
    /\ PageCalled =>
          /\ config = pre.config
          /\ \A q \in PageIds \ {last.page} : pages[q] = pre.pages[q]
    /\ (ticks = 0) =>
          /\ config.site_name = config0.site_name
          /\ IF Len(stamps) = 0 THEN config.copyright = config0.copyright
             ELSE IsStampFor(config.copyright, year0)
          /\ \A p \in PageIds :
                /\ pages[p].meta = pages0[p].meta
                /\ pages[p].toc =
                      IF Qualifies(pages0[p])
                      THEN WithAppended(pages0[p].toc, NComments(calls[p]))
                      ELSE pages0[p].toc

C9_Witness ==
    /\ ticks = 0
    /\ last.op = "on_config"
    /\ Len(stamps) = 2
    /\ \A p \in PageIds : calls[p] = 1 /\ Qualifies(pages0[p])
    /\ pages # pages0
    /\ pages = pre.pages

====
